---- MODULE Spec2Model ----
(***************************************************************************)
(* Model of backend/app.py: the FinancialDataService (get_stock_quote,     *)
(* get_historical_data) and the routes that value a portfolio and enrich   *)
(* a watchlist from its quotes.                                            *)
(*                                                                         *)
(* Numbers are exact: a Python float is modelled by the integer or the     *)
(* reduced fraction it approximates.  An exception is the value            *)
(* Raise(exc); a try/except turns it into the handler's return value, and  *)
(* a route without one ends with status "error" (Flask answers 500).       *)
(* The provider's answer to each request is an input of the call.          *)
(***************************************************************************)
EXTENDS Integers, Sequences, FiniteSets, TLC

\* ------------------------------------------------------------------ bounds
MaxHoldings == 2
MaxRecords == 32

\* ------------------------------------------------------- program constants
SeriesLimit == 30

\* ------------------------------------------------------------ input domains
Symbols == {"AAPL", "MSFT", "GOOG"}
Quantities == {10}
PurchasePrices == {0, 100}
Prices == {50, 150}

\* ------------------------------------------------------------ Python values
None == [tag |-> "None"]
Raise(exc) == [tag |-> "raise", exc |-> exc]
IsRaise(v) == v.tag = "raise"
Val(v) == [tag |-> "value", v |-> v]

\* A JSON field of the provider's answer.  k = "missing": the key is absent;
\* "int": a string holding an integer literal of value v; "dec": a string
\* holding a decimal literal with a fraction part; "text": a string that is
\* no number; "number": a JSON number, not a string.  pct counts the '%'
\* characters that end the string.
Field(k, v, pct) == [k |-> k, v |-> v, pct |-> pct]
Missing == Field("missing", 0, 0)
Text == Field("text", 0, 0)

\* quote.get('...', '0'): an absent key reads as '0'
Subscript_default(f) == IF f.k = "missing" THEN Val(Field("int", 0, 0)) ELSE Val(f)

\* quote['...'] on a dict
Subscript(f) == IF f.k = "missing" THEN Raise("KeyError") ELSE Val(f)

\* float(x)
float_of(f) ==
    IF f.k \in {"int", "dec", "number"} /\ f.pct = 0 THEN Val(f.v) ELSE Raise("ValueError")

\* int(x)
int_of(f) ==
    IF f.k \in {"int", "number"} /\ f.pct = 0 THEN Val(f.v) ELSE Raise("ValueError")

\* x.rstrip('%'): every trailing '%' goes; the value stays a string
rstrip(f) ==
    IF f.k = "number" THEN Raise("AttributeError") ELSE Val([f EXCEPT !.pct = 0])

\* --------------------------------------------------------- get_stock_quote
\* The provider's answer to a GLOBAL_QUOTE request.
\*   kind = "network_error": requests.get raises
\*   kind = "not_json":      response.json() raises
\*   kind = "null" / "list": the body is JSON but no object
\*   kind = "dict":          an object; has_key tells whether it holds
\*                           'Global Quote', quote is that value
QuoteObject(price, change, pct, volume, day) ==
    [type |-> "object", price |-> price, change |-> change,
     change_percent |-> pct, volume |-> volume, day |-> day]

GoodQuote(p) ==
    QuoteObject(Field("dec", p, 0), Field("dec", 2, 0), Field("dec", 1, 1),
                Field("int", 1000, 0), Field("text", 0, 0))

EmptyQuote == QuoteObject(Missing, Missing, Missing, Missing, Missing)

QuoteFields == {"price", "change", "change_percent", "volume", "day"}

QuoteValues ==
    {GoodQuote(p) : p \in Prices}
    \cup {[GoodQuote(p) EXCEPT ![f] = Missing] : p \in Prices, f \in QuoteFields}
    \cup {[GoodQuote(p) EXCEPT ![f] = Text] : p \in Prices, f \in QuoteFields}
    \cup {[GoodQuote(p) EXCEPT !.volume = Field("dec", 1000, 0)] : p \in Prices}
    \cup {[GoodQuote(p) EXCEPT !.change_percent = Field("number", 1, 0)] : p \in Prices}
    \cup {EmptyQuote, [EmptyQuote EXCEPT !.type = "string"]}

QuoteResponse(kind, has_key, quote) == [kind |-> kind, has_key |-> has_key, quote |-> quote]

QuoteResponses ==
    {QuoteResponse(k, FALSE, EmptyQuote) : k \in {"network_error", "not_json", "null", "list", "dict"}}
    \cup {QuoteResponse("dict", TRUE, q) : q \in QuoteValues}

\* The body of the try block of get_stock_quote: the value it returns, None
\* when it falls through to the final return, or the exception it raises.
get_stock_quote_try(symbol, resp) ==
    IF resp.kind = "network_error" THEN Raise("RequestException")
    ELSE IF resp.kind = "not_json" THEN Raise("JSONDecodeError")
    ELSE IF resp.kind = "null" THEN Raise("TypeError")
    ELSE IF resp.kind = "list" \/ ~resp.has_key THEN None
    ELSE IF resp.quote.type # "object" THEN Raise("TypeError")
    ELSE LET quote == resp.quote
             price_s == Subscript(quote.price)
             price == IF IsRaise(price_s) THEN price_s ELSE float_of(price_s.v)
             change_s == Subscript(quote.change)
             change == IF IsRaise(change_s) THEN change_s ELSE float_of(change_s.v)
             pct_s == Subscript(quote.change_percent)
             pct == IF IsRaise(pct_s) THEN pct_s ELSE rstrip(pct_s.v)
             volume_s == Subscript(quote.volume)
             volume == IF IsRaise(volume_s) THEN volume_s ELSE int_of(volume_s.v)
             day == Subscript(quote.day)
         IN  IF IsRaise(price) THEN price
             ELSE IF IsRaise(change) THEN change
             ELSE IF IsRaise(pct) THEN pct
             ELSE IF IsRaise(volume) THEN volume
             ELSE IF IsRaise(day) THEN day
             ELSE [tag |-> "quote", symbol |-> symbol, price |-> price.v,
                   change |-> change.v, change_percent |-> pct.v,
                   volume |-> volume.v, latest_trading_day |-> day.v]

\* get_stock_quote without its except clause: the exception leaves the call
get_stock_quote_uncaught(symbol, resp) == get_stock_quote_try(symbol, resp)

\* get_stock_quote: except Exception logs and falls through to return None
get_stock_quote(symbol, resp) ==
    LET r == get_stock_quote_try(symbol, resp)
    IN  IF IsRaise(r) THEN None ELSE r

\* ------------------------------------------------------ get_historical_data
Windows == {"1week", "1month", "3months", "1year", "5years"}

\* a table of periods that maps every window to the daily series
periods_get_daily(period) == "TIME_SERIES_DAILY"

\* periods.get(period, 'TIME_SERIES_DAILY')
periods_get(period) ==
    CASE period = "1week" -> "TIME_SERIES_DAILY"
      [] period = "1month" -> "TIME_SERIES_DAILY"
      [] period = "3months" -> "TIME_SERIES_DAILY"
      [] period = "1year" -> "TIME_SERIES_MONTHLY"
      [] OTHER -> "TIME_SERIES_DAILY"

\* the request get_historical_data sends
historical_params(symbol, period) ==
    [function |-> periods_get(period), symbol |-> symbol, outputsize |-> "compact"]

\* A date key of the provider's mapping: fmt = "canon" is 'YYYY-MM-DD' with
\* two-digit month and day, "unpadded" the same date written without the
\* leading zeros, "bad" a string '%Y-%m-%d' does not match.  day numbers the
\* date.
DateStr(fmt, day) == [fmt |-> fmt, day |-> day]

\* datetime.strptime(date_str, '%Y-%m-%d')
strptime(s) == IF s.fmt = "bad" THEN Raise("ValueError") ELSE Val(s.day)

\* d.strftime('%Y-%m-%d')
strftime(day) == DateStr("canon", day)

\* The value found under a series key: type = "absent" (no such key),
\* "mapping" (items lists the date-keyed records in the order of the body)
\* or "string" (a message instead of a mapping).
Absent == [type |-> "absent", items |-> <<>>]
Mapping(items) == [type |-> "mapping", items |-> items]
Message == [type |-> "string", items |-> <<>>]

Orders == {"desc", "asc", "rot"}

\* the date of the i-th record listed, of n: most recent first ("desc"),
\* oldest first ("asc"), or the oldest followed by the others, most recent
\* first ("rot")
DateAt(order, n, i) ==
    CASE order = "desc" -> n + 1 - i
      [] order = "asc" -> i
      [] OTHER -> IF i = 1 THEN 1 ELSE n + 2 - i

\* the close of the provider's series of a granularity on a date
ClosePrice(function, day) == day + (IF function = "TIME_SERIES_MONTHLY" THEN 200 ELSE 100)

Flaws == {"date_malformed", "close_text", "close_missing", "date_unpadded"}
NoFlaw == [pos |-> 0, what |-> "none"]
FlawPositions == {1, SeriesLimit, SeriesLimit + 1}
RecordCounts == {0, 2, SeriesLimit, SeriesLimit + 1, MaxRecords}

SeriesItem(function, order, n, i, flaw) ==
    LET day == DateAt(order, n, i)
        hit == flaw.pos = i
    IN  [date |-> DateStr(IF hit /\ flaw.what = "date_malformed" THEN "bad"
                          ELSE IF hit /\ flaw.what = "date_unpadded" THEN "unpadded"
                          ELSE "canon", day),
         close |-> IF hit /\ flaw.what = "close_text" THEN Text
                   ELSE IF hit /\ flaw.what = "close_missing" THEN Missing
                   ELSE Field("dec", ClosePrice(function, day), 0)]

SeriesItems(function, order, n, flaw) ==
    [i \in 1..n |-> SeriesItem(function, order, n, i, flaw)]

SeriesShapes ==
    {[order |-> o, n |-> n, flaw |-> NoFlaw] : o \in Orders, n \in RecordCounts}
    \cup {t \in {[order |-> o, n |-> n, flaw |-> [pos |-> p, what |-> w]] :
                    o \in {"desc"}, n \in RecordCounts, p \in FlawPositions, w \in Flaws} :
            t.flaw.pos <= t.n}

HistoricalResponse(kind, daily, monthly) == [kind |-> kind, daily |-> daily, monthly |-> monthly]

\* The provider answers the function it is asked: the series, when the body
\* holds one, is under the key of that function.
UnderKey(function, series) ==
    HistoricalResponse("dict",
        IF function = "TIME_SERIES_DAILY" THEN series ELSE Absent,
        IF function = "TIME_SERIES_MONTHLY" THEN series ELSE Absent)

HistoricalResponses(function) ==
    {HistoricalResponse(k, Absent, Absent) : k \in {"network_error", "not_json", "null", "dict"}}
    \cup {UnderKey(function, Message)}
    \cup {UnderKey(function, Mapping(SeriesItems(function, s.order, s.n, s.flaw))) :
            s \in SeriesShapes}

Min(a, b) == IF a < b THEN a ELSE b

\* list(time_series.items())[:31]
first_items_31(items) == SubSeq(items, 1, Min(Len(items), SeriesLimit + 1))

\* list(time_series.items())[:30]
first_items(items) == SubSeq(items, 1, Min(Len(items), SeriesLimit))

\* a list left in the order it has
reverse_omitted(s) == s

\* list.reverse()
reverse(s) == [i \in 1..Len(s) |-> s[Len(s) + 1 - i]]

\* the for loop with each record in a try of its own: a record that does
\* not parse is passed over
RECURSIVE parse_items_skipping(_, _, _)
parse_items_skipping(items, dates, prices) ==
    IF items = <<>> THEN [tag |-> "lists", dates |-> dates, prices |-> prices]
    ELSE LET it == Head(items)
             d == strptime(it.date)
             c == Subscript(it.close)
             p == IF IsRaise(c) THEN c ELSE float_of(c.v)
         IN  IF IsRaise(d) \/ IsRaise(p) THEN parse_items_skipping(Tail(items), dates, prices)
             ELSE parse_items_skipping(Tail(items), Append(dates, d.v), Append(prices, p.v))

\* the for loop of get_historical_data: the lists it builds, or the
\* exception of the first record that does not parse
RECURSIVE parse_items(_, _, _)
parse_items(items, dates, prices) ==
    IF items = <<>> THEN [tag |-> "lists", dates |-> dates, prices |-> prices]
    ELSE LET it == Head(items)
             d == strptime(it.date)
             c == Subscript(it.close)
             p == IF IsRaise(c) THEN c ELSE float_of(c.v)
         IN  IF IsRaise(d) THEN d
             ELSE IF IsRaise(p) THEN p
             ELSE parse_items(Tail(items), Append(dates, d.v), Append(prices, p.v))

\* the series the code picks from the body: daily when that key is there,
\* else monthly, else None
select_time_series(data) ==
    IF data.daily.type # "absent" THEN data.daily
    ELSE IF data.monthly.type # "absent" THEN data.monthly
    ELSE Absent

\* if time_series:
Truthy(ts) == ts.type = "string" \/ (ts.type = "mapping" /\ ts.items # <<>>)

\* The body of the try block of get_historical_data.
get_historical_data_try(symbol, period, resp) ==
    IF resp.kind = "network_error" THEN Raise("RequestException")
    ELSE IF resp.kind = "not_json" THEN Raise("JSONDecodeError")
    ELSE IF resp.kind = "null" THEN Raise("TypeError")
    ELSE LET time_series == select_time_series(resp)
         IN  IF ~Truthy(time_series) THEN None
             ELSE IF time_series.type = "string" THEN Raise("AttributeError")
             ELSE LET lists == parse_items(first_items(time_series.items), <<>>, <<>>)
                  IN  IF IsRaise(lists) THEN lists
                      ELSE LET dates == reverse(lists.dates)
                               prices == reverse(lists.prices)
                           IN  [tag |-> "series",
                                dates |-> [i \in 1..Len(dates) |-> strftime(dates[i])],
                                prices |-> prices]

\* get_historical_data: except Exception logs and falls through to return None
get_historical_data(symbol, period, resp) ==
    LET r == get_historical_data_try(symbol, period, resp)
    IN  IF IsRaise(r) THEN None ELSE r

\* ------------------------------------------------------------------ routes
\* A float quotient, kept exact as a reduced fraction with den > 0.
Abs(n) == IF n < 0 THEN -n ELSE n

RECURSIVE GCD(_, _)
GCD(a, b) == IF b = 0 THEN a ELSE GCD(b, a % b)

Frac(n, d) == LET g == GCD(Abs(n), d) IN [num |-> n \div g, den |-> d \div g]
Zero == [num |-> 0, den |-> 1]

\* a / b * 100; ZeroDivisionError when b is 0
percent_of(a, b) == IF b = 0 THEN Raise("ZeroDivisionError") ELSE Val(Frac(a * 100, b))

\* a / b * 100 if b > 0 else 0
percent_guarded(a, b) == IF b > 0 THEN Val(Frac(a * 100, b)) ELSE Val(Zero)

\* a row of Portfolio
Holding(symbol, quantity, purchase_price) ==
    [symbol |-> symbol, quantity |-> quantity, purchase_price |-> purchase_price]

\* the answers the provider gives the routes
RouteResponses ==
    {QuoteResponse("dict", TRUE, GoodQuote(p)) : p \in Prices}
    \cup {QuoteResponse("network_error", FALSE, EmptyQuote),
          QuoteResponse("dict", FALSE, EmptyQuote),
          QuoteResponse("dict", TRUE, [GoodQuote(150) EXCEPT !.price = Text])}

\* The loop of dashboard_overview over the rows left, resps[i] the
\* provider's answer for the i-th of them, then the summary; an exception
\* ends the request.
RECURSIVE dashboard_overview_loop(_, _, _, _, _)
dashboard_overview_loop(portfolios, resps, total_investment, current_value, portfolio_data) ==
    IF portfolios = <<>>
    THEN LET overall_gain_loss == current_value - total_investment
             overall_gain_loss_percent ==
                 percent_guarded(overall_gain_loss, total_investment).v
         IN  [tag |-> "response",
              portfolio_summary |->
                  [total_investment |-> total_investment,
                   current_value |-> current_value,
                   overall_gain_loss |-> overall_gain_loss,
                   overall_gain_loss_percent |-> overall_gain_loss_percent],
              holdings |-> portfolio_data]
    ELSE LET portfolio == Head(portfolios)
             stock_data == get_stock_quote(portfolio.symbol, Head(resps))
         IN  IF stock_data # None
             THEN LET investment == portfolio.quantity * portfolio.purchase_price
                      current_val == portfolio.quantity * stock_data.price
                      gain_loss == current_val - investment
                      gain_loss_percent == percent_of(gain_loss, investment)
                  IN  IF IsRaise(gain_loss_percent) THEN gain_loss_percent
                      ELSE dashboard_overview_loop(Tail(portfolios), Tail(resps),
                               total_investment + investment,
                               current_value + current_val,
                               Append(portfolio_data,
                                   [symbol |-> portfolio.symbol,
                                    quantity |-> portfolio.quantity,
                                    purchase_price |-> portfolio.purchase_price,
                                    current_price |-> stock_data.price,
                                    investment |-> investment,
                                    current_value |-> current_val,
                                    gain_loss |-> gain_loss,
                                    gain_loss_percent |-> gain_loss_percent.v]))
             ELSE dashboard_overview_loop(Tail(portfolios), Tail(resps),
                      total_investment, current_value, portfolio_data)

\* the loop of get_watchlist ended by the first symbol without a quote
RECURSIVE get_watchlist_loop_break(_, _, _)
get_watchlist_loop_break(watchlist_items, resps, watchlist_data) ==
    IF watchlist_items = <<>> THEN [tag |-> "response", body |-> watchlist_data]
    ELSE LET item == Head(watchlist_items)
             stock_data == get_stock_quote(item, Head(resps))
         IN  IF stock_data # None
             THEN get_watchlist_loop_break(Tail(watchlist_items), Tail(resps),
                      Append(watchlist_data,
                          [symbol |-> item,
                           price |-> stock_data.price,
                           change |-> stock_data.change,
                           change_percent |-> stock_data.change_percent]))
             ELSE [tag |-> "response", body |-> watchlist_data]

\* The loop of get_watchlist over the symbols left.
RECURSIVE get_watchlist_loop(_, _, _)
get_watchlist_loop(watchlist_items, resps, watchlist_data) ==
    IF watchlist_items = <<>> THEN [tag |-> "response", body |-> watchlist_data]
    ELSE LET item == Head(watchlist_items)
             stock_data == get_stock_quote(item, Head(resps))
         IN  IF stock_data # None
             THEN get_watchlist_loop(Tail(watchlist_items), Tail(resps),
                      Append(watchlist_data,
                          [symbol |-> item,
                           price |-> stock_data.price,
                           change |-> stock_data.change,
                           change_percent |-> stock_data.change_percent]))
             ELSE get_watchlist_loop(Tail(watchlist_items), Tail(resps), watchlist_data)

\* ------------------------------------------------------------------- state
VARIABLES
    portfolio,   \* the rows of Portfolio of the user, in insertion order
    watchlist,   \* the symbols of the rows of Watchlist of the user
    overview,    \* the last dashboard_overview request: rows, answers, outcome
    watch,       \* the last get_watchlist request: symbols, answers, outcome
    svc          \* the last call of a FinancialDataService method

vars == <<portfolio, watchlist, overview, watch, svc>>

NoQuoteResponse == QuoteResponse("none", FALSE, EmptyQuote)
NoHistoricalResponse == HistoricalResponse("none", Absent, Absent)

NoRequest == [status |-> "none", rows |-> <<>>, resps |-> <<>>, result |-> None]
NoCall ==
    [op |-> "none", symbol |-> "", period |-> "", function |-> "",
     qresp |-> NoQuoteResponse, hresp |-> NoHistoricalResponse, result |-> None]

\* How the taxonomy of failures classes an answer to a quote request.
RequiredNumeric == {"price", "change", "change_percent", "volume"}

FailureKind(resp) ==
    IF resp.kind = "network_error" THEN "Unavailable"
    ELSE IF resp.kind = "dict" /\ ~resp.has_key THEN "UnexpectedShape"
    ELSE IF resp.kind = "dict" /\ resp.has_key /\ resp.quote.type = "object"
            /\ (\/ \E f \in QuoteFields : resp.quote[f].k = "missing"
                \/ \E f \in RequiredNumeric : resp.quote[f].k = "text")
         THEN "MalformedField"
    ELSE IF resp.kind = "dict" /\ resp.has_key /\ resp.quote.type = "object"
            /\ resp.quote.volume.k = "int" /\ resp.quote.change_percent.k # "number"
         THEN "WellFormed"
    ELSE "Other"

FailureKinds == {"Unavailable", "UnexpectedShape", "MalformedField"}

Init ==
    /\ portfolio = <<>>
    /\ watchlist = <<>>
    /\ overview = NoRequest
    /\ watch = NoRequest
    /\ svc = NoCall

\* ----------------------------------------------------------------- actions
add_to_portfolio ==
    /\ Len(portfolio) < MaxHoldings
    /\ \E symbol \in Symbols, quantity \in Quantities, purchase_price \in PurchasePrices :
           portfolio' = Append(portfolio, Holding(symbol, quantity, purchase_price))
    /\ UNCHANGED <<watchlist, overview, watch, svc>>

add_to_watchlist ==
    /\ \E symbol \in Symbols :
           IF \E i \in 1..Len(watchlist) : watchlist[i] = symbol
           THEN watchlist' = watchlist
           ELSE watchlist' = Append(watchlist, symbol)
    /\ UNCHANGED <<portfolio, overview, watch, svc>>

dashboard_overview ==
    /\ \E resps \in [1..Len(portfolio) -> RouteResponses] :
           LET r == dashboard_overview_loop(portfolio, resps, 0, 0, <<>>)
           IN  overview' = [status |-> IF IsRaise(r) THEN "error" ELSE "ok",
                            rows |-> portfolio, resps |-> resps, result |-> r]
    /\ UNCHANGED <<portfolio, watchlist, watch, svc>>

get_watchlist ==
    /\ \E resps \in [1..Len(watchlist) -> RouteResponses] :
           LET r == get_watchlist_loop(watchlist, resps, <<>>)
           IN  watch' = [status |-> IF IsRaise(r) THEN "error" ELSE "ok",
                         rows |-> watchlist, resps |-> resps, result |-> r]
    /\ UNCHANGED <<portfolio, watchlist, overview, svc>>

call_get_stock_quote ==
    /\ \E symbol \in {"AAPL"}, resp \in QuoteResponses :
           svc' = [NoCall EXCEPT !.op = "get_stock_quote", !.symbol = symbol,
                                 !.qresp = resp,
                                 !.result = get_stock_quote(symbol, resp)]
    /\ UNCHANGED <<portfolio, watchlist, overview, watch>>

call_get_historical_data ==
    /\ \E symbol \in {"AAPL"}, period \in Windows :
           LET params == historical_params(symbol, period)
           IN  \E resp \in HistoricalResponses(params.function) :
                   svc' = [NoCall EXCEPT !.op = "get_historical_data", !.symbol = symbol,
                                         !.period = period, !.function = params.function,
                                         !.hresp = resp,
                                         !.result = get_historical_data(symbol, period, resp)]
    /\ UNCHANGED <<portfolio, watchlist, overview, watch>>

NextPortfolio ==
    \/ add_to_portfolio
    \/ dashboard_overview

SpecPortfolio == Init /\ [][NextPortfolio]_vars

NextWatchlist ==
    \/ add_to_watchlist
    \/ get_watchlist

SpecWatchlist == Init /\ [][NextWatchlist]_vars

NextService ==
    \/ call_get_stock_quote
    \/ call_get_historical_data

SpecService == Init /\ [][NextService]_vars

\* ================================================================== claims
\* ------------------------------------------------ what a request was given
\* the provider answered with a quote whose every field is well-formed
FetchSucceeded(resp) == FailureKind(resp) = "WellFormed"

\* the indices of the rows of a request whose quote fetch succeeded
IncludedIn(req) == {i \in 1..Len(req.rows) : FetchSucceeded(req.resps[i])}

\* the place, among the lines returned, of the line of row i
LineIndex(req, i) == Cardinality({j \in IncludedIn(req) : j <= i})

QuotedPrice(resp) == resp.quote.price.v

InvestmentOf(row) == row.quantity * row.purchase_price

RECURSIVE SumInvestment(_, _)
SumInvestment(S, req) ==
    IF S = {} THEN 0
    ELSE LET i == CHOOSE j \in S : TRUE
         IN  InvestmentOf(req.rows[i]) + SumInvestment(S \ {i}, req)

RECURSIVE SumCurrentValue(_, _)
SumCurrentValue(S, req) ==
    IF S = {} THEN 0
    ELSE LET i == CHOOSE j \in S : TRUE
         IN  req.rows[i].quantity * QuotedPrice(req.resps[i]) + SumCurrentValue(S \ {i}, req)

RECURSIVE SumSeq(_)
SumSeq(q) == IF q = <<>> THEN 0 ELSE Head(q) + SumSeq(Tail(q))

\* C1: in dashboard_overview, every holding that has a quote and whose
\* investment (quantity * purchase_price) is 0 gets a line with
\* gain_loss_percent 0; the request does not fail and the lines of the other
\* holdings are produced too.
C1_ZeroDivisionGuard ==
    overview.status # "none" =>
        \A i \in IncludedIn(overview) :
            InvestmentOf(overview.rows[i]) = 0 =>
                /\ overview.status = "ok"
                /\ Len(overview.result.holdings) = Cardinality(IncludedIn(overview))
                /\ overview.result.holdings[LineIndex(overview, i)].gain_loss_percent = Zero

\* C2: dashboard_overview returns exactly one line per holding whose fetch
\* succeeded, in holdings order, none for a failed one, and its sums hold
\* no contribution of a failed holding; with one failed holding the line
\* count is the holdings count minus 1.
C2_SkipPolicy ==
    overview.status # "none" =>
        /\ overview.status = "ok"
        /\ Len(overview.result.holdings) = Cardinality(IncludedIn(overview))
        /\ \A i \in IncludedIn(overview) :
               LET line == overview.result.holdings[LineIndex(overview, i)]
               IN  /\ line.symbol = overview.rows[i].symbol
                   /\ line.quantity = overview.rows[i].quantity
                   /\ line.purchase_price = overview.rows[i].purchase_price
                   /\ line.current_price = QuotedPrice(overview.resps[i])
        /\ overview.result.portfolio_summary.total_investment
               = SumInvestment(IncludedIn(overview), overview)
        /\ overview.result.portfolio_summary.current_value
               = SumCurrentValue(IncludedIn(overview), overview)
        /\ (Cardinality(IncludedIn(overview)) = Len(overview.rows) - 1
               => Len(overview.result.holdings) = Len(overview.rows) - 1)

\* C7: the summary of dashboard_overview is consistent with the lines:
\* total_investment and current_value are the sums of the lines,
\* overall_gain_loss is their difference and the sum of the lines'
\* gain_loss, overall_gain_loss_percent is overall_gain_loss /
\* total_investment * 100 when total_investment > 0 and 0 otherwise; the
\* holding {10 at 100} quoted at 150 gives 1000, 1500, 500, 50.
C7_AggregateConsistency ==
    overview.status # "none" =>
        /\ overview.status = "ok"
        /\ LET summary == overview.result.portfolio_summary
               lines == overview.result.holdings
           IN  /\ summary.total_investment = SumSeq([i \in 1..Len(lines) |-> lines[i].investment])
               /\ summary.current_value = SumSeq([i \in 1..Len(lines) |-> lines[i].current_value])
               /\ summary.total_investment = SumInvestment(IncludedIn(overview), overview)
               /\ summary.current_value = SumCurrentValue(IncludedIn(overview), overview)
               /\ summary.overall_gain_loss = summary.current_value - summary.total_investment
               /\ summary.overall_gain_loss = SumSeq([i \in 1..Len(lines) |-> lines[i].gain_loss])
               /\ summary.overall_gain_loss_percent
                      = IF summary.total_investment > 0
                        THEN Frac(summary.overall_gain_loss * 100, summary.total_investment)
                        ELSE Zero
               /\ (/\ Len(overview.rows) = 1
                   /\ overview.rows[1].quantity = 10
                   /\ overview.rows[1].purchase_price = 100
                   /\ FetchSucceeded(overview.resps[1])
                   /\ QuotedPrice(overview.resps[1]) = 150)
                  => summary = [total_investment |-> 1000, current_value |-> 1500,
                                overall_gain_loss |-> 500,
                                overall_gain_loss_percent |-> [num |-> 50, den |-> 1]]

\* ------------------------------------------------------------- watchlist
RECURSIVE ExpectedWatchlist(_, _)
ExpectedWatchlist(symbols, resps) ==
    IF symbols = <<>> THEN <<>>
    ELSE LET rest == ExpectedWatchlist(Tail(symbols), Tail(resps))
             q == Head(resps).quote
         IN  IF FetchSucceeded(Head(resps))
             THEN <<[symbol |-> Head(symbols), price |-> q.price.v, change |-> q.change.v,
                     change_percent |-> Field(q.change_percent.k, q.change_percent.v, 0)]>>
                  \o rest
             ELSE rest

IsSeriesCall == svc.op = "get_historical_data"
IsQuoteCall == svc.op = "get_stock_quote"

\* the granularity a window asks for
RequestedGranularity(period) ==
    IF period = "1year" THEN "TIME_SERIES_MONTHLY" ELSE "TIME_SERIES_DAILY"

\* the records the provider listed for the granularity it was asked
ListedRecords ==
    IF svc.function = "TIME_SERIES_MONTHLY" THEN svc.hresp.monthly.items
    ELSE svc.hresp.daily.items

IsBadRecord(it) == it.date.fmt = "bad" \/ it.close.k \in {"text", "missing"}

BadPositions == {i \in 1..Len(ListedRecords) : IsBadRecord(ListedRecords[i])}

\* the provider lists its records most recent first
ListedMostRecentFirst ==
    /\ \A i \in 1..Len(ListedRecords) : ListedRecords[i].date.fmt # "bad"
    /\ \A i \in 1..(Len(ListedRecords) - 1) :
           ListedRecords[i].date.day > ListedRecords[i + 1].date.day

\* dates as the caller reads them: 'YYYY-MM-DD' strings order as their dates
DateBefore(a, b) == a.fmt = "canon" /\ b.fmt = "canon" /\ a.day < b.day

StrictlyAscending(dates) ==
    \A i \in 1..(Len(dates) - 1) : DateBefore(dates[i], dates[i + 1])

DaysOf(dates) == {dates[i].day : i \in 1..Len(dates)}
ListedDays(k) == {ListedRecords[i].date.day : i \in 1..Min(k, Len(ListedRecords))}
MostRecent(S, k) == {d \in S : Cardinality({e \in S : e > d}) < k}

\* C3 as stated: whenever get_historical_data returns a series, its points
\* are in strictly ascending date order, whatever the order in which the
\* provider lists its records.
C3_AscendingAnyOrder ==
    (IsSeriesCall /\ svc.result # None) => StrictlyAscending(svc.result.dates)

\* C3: whenever get_historical_data returns a series and the provider listed
\* its records most recent first, the points are in strictly ascending date
\* order.
C3_AscendingWhenListedDescending ==
    (IsSeriesCall /\ svc.result # None /\ ListedMostRecentFirst)
        => StrictlyAscending(svc.result.dates)

\* a series of 30 points returned from records listed most recent first, one
\* of them keyed by a date written without leading zeros
C3_Witness ==
    /\ IsSeriesCall
    /\ svc.result # None
    /\ ListedMostRecentFirst
    /\ Len(svc.result.dates) = SeriesLimit
    /\ \E i \in 1..SeriesLimit : ListedRecords[i].date.fmt = "unpadded"
    /\ svc.result.dates[1].day < svc.result.dates[SeriesLimit].day

\* C4 as stated: when one record of the provider's series has a malformed
\* date or a non-numeric or missing close and the others are well-formed,
\* that record is skipped and a series of the other records is returned.
C4_BadRecordSkipped ==
    (IsSeriesCall /\ Cardinality(BadPositions) = 1 /\ Len(ListedRecords) >= 2)
        => /\ svc.result # None
           /\ Len(svc.result.dates) = Min(Len(ListedRecords) - 1, SeriesLimit)

\* C4: when a record among the first 30 the provider lists has a malformed
\* date or a non-numeric or missing close, get_historical_data returns None
\* for the whole series; a bad record listed after the first 30 is not read
\* and the series of the first 30 records is returned.
C4_BadRecordFailsSeries ==
    IsSeriesCall =>
        /\ (\E i \in BadPositions : i <= SeriesLimit) => svc.result = None
        /\ (BadPositions # {} /\ \A i \in BadPositions : i > SeriesLimit)
               => (svc.result # None /\ DaysOf(svc.result.dates) = ListedDays(SeriesLimit))

\* a series of 30 records, the last of them bad, answered with None
C4_Witness ==
    /\ IsSeriesCall
    /\ Len(ListedRecords) = SeriesLimit
    /\ BadPositions = {SeriesLimit}
    /\ svc.result = None

\* C5: get_stock_quote and get_historical_data never raise past the caller:
\* whatever the provider does, the call returns a normalized value or None.
C5_NeverRaises ==
    /\ IsQuoteCall => svc.result.tag \in {"quote", "None"}
    /\ IsSeriesCall => svc.result.tag \in {"series", "None"}
    /\ (IsQuoteCall /\ svc.qresp.kind \in {"network_error", "not_json", "null"})
           => svc.result = None
    /\ (IsSeriesCall /\ svc.hresp.kind \in {"network_error", "not_json", "null"})
           => svc.result = None

\* a quote request that met a network failure and returned None
C5_Witness ==
    /\ IsQuoteCall
    /\ svc.qresp.kind = "network_error"
    /\ svc.result = None

\* C6 as stated: the failure result of get_stock_quote tells the kinds of
\* failure apart: two calls that failed in different kinds (Unavailable,
\* UnexpectedShape, MalformedField) return results the caller can tell
\* apart.
C6_KindsDistinguishable ==
    [][(/\ IsQuoteCall
        /\ svc'.op = "get_stock_quote"
        /\ FailureKind(svc.qresp) \in FailureKinds
        /\ FailureKind(svc'.qresp) \in FailureKinds
        /\ FailureKind(svc.qresp) # FailureKind(svc'.qresp))
       => svc.result # svc'.result]_vars

\* a quote object that lacks a field, or whose price, change or volume is
\* no number
DetectedMalformed(resp) ==
    /\ FailureKind(resp) = "MalformedField"
    /\ \/ \E f \in QuoteFields : resp.quote[f].k = "missing"
       \/ \E f \in {"price", "change", "volume"} : resp.quote[f].k = "text"

\* C6: a network failure, a response without 'Global Quote' and a quote
\* object with a missing field or a non-numeric price, change or volume all
\* yield the same result None; a well-formed response yields a quote, so
\* the caller tells failure from success and not one failure from another.
C6_FailuresAllNone ==
    IsQuoteCall =>
        /\ FailureKind(svc.qresp) \in {"Unavailable", "UnexpectedShape"} => svc.result = None
        /\ DetectedMalformed(svc.qresp) => svc.result = None
        /\ FailureKind(svc.qresp) = "WellFormed"
               => (svc.result.tag = "quote" /\ svc.result.price = svc.qresp.quote.price.v)

\* a quote object without its price, answered with None
C6_Witness ==
    /\ IsQuoteCall
    /\ svc.qresp.kind = "dict"
    /\ svc.qresp.has_key
    /\ svc.qresp.quote.price.k = "missing"
    /\ svc.qresp.quote.change.k # "missing"
    /\ svc.result = None

\* C8: get_historical_data asks the provider for the monthly series if and
\* only if the window is one year, for the daily series for every other
\* window, and the series it returns is built from the series of the
\* granularity the window asks for.
C8_Granularity ==
    IsSeriesCall =>
        /\ (svc.function = "TIME_SERIES_MONTHLY") <=> (svc.period = "1year")
        /\ (svc.function = "TIME_SERIES_DAILY") <=> (svc.period # "1year")
        /\ svc.result # None =>
               \A i \in 1..Len(svc.result.dates) :
                   svc.result.prices[i]
                       = ClosePrice(RequestedGranularity(svc.period), svc.result.dates[i].day)

\* a one-year request answered from the monthly series
C8_Witness ==
    /\ IsSeriesCall
    /\ svc.period = "1year"
    /\ svc.function = "TIME_SERIES_MONTHLY"
    /\ svc.result # None
    /\ Len(svc.result.prices) >= 2
    /\ svc.result.prices[1] = ClosePrice("TIME_SERIES_MONTHLY", svc.result.dates[1].day)

====
